---- MODULE Spec2Model ----
(***************************************************************************)
(* BrainAgentBase (autopr/agents/brain_agent/base.py): the orchestrator    *)
(* that wraps the overridable _generate_pr in a placeholder publish, an    *)
(* optional model advisory, logging, and a finalize of the publish         *)
(* service.                                                                *)
(*                                                                         *)
(* Every statement of generate_pr is one action; pc[i] holds the source    *)
(* line invocation i is about to execute.  Every call that generate_pr     *)
(* makes on a collaborator (publish service, logger) either returns or     *)
(* raises; a raising call is still recorded in the trace, since the        *)
(* collaborator received it.  _generate_pr is either the base method       *)
(* (raise NotImplementedError) or an overriding strategy, which publishes  *)
(* progress any number of times and then returns or raises.  The caller    *)
(* makes its calls to generate_pr one after the other.  The warning call   *)
(* of the constructor is taken to return.  The orchestrator is a concrete  *)
(* subtype: it has set the class attribute id (base.py:26-27).             *)
(***************************************************************************)
EXTENDS Integers, Sequences, FiniteSets, TLC

\* ---- bounds -------------------------------------------------------------
NumInv == 2          \* successive generate_pr calls on the one orchestrator
MaxProgress == 1     \* progress publishes one _generate_pr run may make
NumObjs == 2         \* candidate objects for each constructor argument
NumKeys == 2         \* extra keyword options the constructor may be given

Inv == 1..NumInv
Objs == 1..NumObjs
Keys == 1..NumKeys

\* ---- values -------------------------------------------------------------
HandleNames ==
    {"rail_service", "chain_service", "diff_service", "codegen_agent",
     "pull_request_agent", "commit_service", "publish_service", "repo"}

GPT35 == "gpt-3.5-turbo"

Models == {"gpt-3.5-turbo", "gpt-4", "gpt-3.5-turbo-16k"}

Events == {"IssueOpened#42", "IssueLabeled#7"}

NoEvent == "-"

\* Errors _generate_pr can raise that derive from Exception ...
ExceptionErrors == {"CollaboratorError", "NotImplementedError"}

\* ... and those that derive from BaseException only.
NonExceptionErrors == {"KeyboardInterrupt"}

\* What a publish-service call and a logger call raise when they fail.
PublishError == "PublishError"

LogError == "LogError"

NoError == "-"

StrategyErrors == {"CollaboratorError"} \cup NonExceptionErrors

AdvisoryText == "Warning: Using gpt-3.5-turbo completion model."

NoText == "-"

\* ---- state --------------------------------------------------------------
VARIABLES
    ctor,        \* "pending" | "done" | "raised": how far __init__ has got
    args,        \* the eight positional arguments given to __init__
    kwargs,      \* the extra keyword options given to __init__
    self,        \* the attributes of the object; <<>> before __init__ has run
    warnings,    \* what __init__ wrote to the log
    model,       \* self.rail_service.completions_repo.model
    overridden,  \* whether the subtype overrides _generate_pr
    pc,          \* pc[i]: the line invocation i executes next
    event,       \* event[i]: the parameter `event` of invocation i
    given,       \* given[i]: the event the caller passed to invocation i
    caught,      \* caught[i]: `e` of the except clause
    exc,         \* exc[i]: the error that left invocation i to its caller
    outcome,     \* outcome[i]: how _generate_pr ended ("return" or an error)
    trace        \* trace[i]: the calls invocation i made, in order

vars == <<ctor, args, kwargs, self, warnings, model, overridden,
          pc, event, given, caught, exc, outcome, trace>>

ctorVars == <<ctor, args, kwargs, self, warnings>>

envVars == <<model, overridden>>

\* ---- trace entries ------------------------------------------------------
\* by: "base" when generate_pr made the call, "strategy" when _generate_pr did;
\* raises: whether the call ended by raising instead of returning
Entry(op, by, success, text, ev, err, raises) ==
    [op |-> op, by |-> by, success |-> success, text |-> text, ev |-> ev,
     err |-> err, raises |-> raises]

UpdateCall(raises) == Entry("update", "base", FALSE, NoText, NoEvent, NoError, raises)

AdvisoryCall(raises) ==
    Entry("publish_update", "base", FALSE, AdvisoryText, NoEvent, NoError, raises)

ProgressCall == Entry("publish_update", "strategy", FALSE, "progress", NoEvent, NoError, FALSE)

LogInfoCall(text, ev, raises) == Entry("log.info", "base", FALSE, text, ev, NoError, raises)

LogExceptionCall(ev, err, raises) ==
    Entry("log.exception", "base", FALSE, "Failed to generate pull request", ev, err, raises)

RunCall(ev) == Entry("_generate_pr", "base", FALSE, NoText, ev, NoError, FALSE)

FinalizeCall(success, raises) ==
    Entry("finalize", "base", success, NoText, NoEvent, NoError, raises)

\* ---- __init__ -----------------------------------------------------------
\* The attributes __init__ stores: the eight arguments and the bound logger.
InitAttrs(a) ==
    [n \in HandleNames \cup {"log"} |-> IF n = "log" THEN "logger(service=brain)" ELSE a[n]]

\* `if kwargs:` -- the warning is logged for a non-empty option bag only.
InitWarnings(kw) ==
    IF kw # {} THEN <<[text |-> "Brain did not use additional options", kwargs |-> kw]>>
    ELSE <<>>

Idle ==
    /\ pc = [i \in Inv |-> "idle"]
    /\ event = [i \in Inv |-> NoEvent]
    /\ given = [i \in Inv |-> NoEvent]
    /\ caught = [i \in Inv |-> NoError]
    /\ exc = [i \in Inv |-> NoError]
    /\ outcome = [i \in Inv |-> NoError]
    /\ trace = [i \in Inv |-> <<>>]

\* Before construction: the caller has chosen the arguments.
CtorInit ==
    /\ ctor = "pending"
    /\ args \in [HandleNames -> Objs]
    /\ kwargs \in SUBSET Keys
    /\ self = <<>>
    /\ warnings = <<>>
    /\ model \in Models
    /\ overridden \in BOOLEAN
    /\ Idle

\* Variant of AcceptsExtra: a signature without **kwargs.
AcceptsExtra_strict(kw) == kw = {}

\* line 39: **kwargs binds every keyword the signature does not name, so the
\* call never fails with a TypeError for an unexpected keyword.
AcceptsExtra(kw) == TRUE

\* lines 29-53
Construct ==
    /\ ctor = "pending"
    /\ IF AcceptsExtra(kwargs)
       THEN /\ self' = InitAttrs(args)
            /\ warnings' = InitWarnings(kwargs)
            /\ ctor' = "done"
       ELSE /\ ctor' = "raised"
            /\ UNCHANGED <<self, warnings>>
    /\ UNCHANGED <<args, kwargs, envVars, pc, event, given, caught, exc, outcome, trace>>

CtorNext == Construct

CtorSpec == CtorInit /\ [][CtorNext]_vars

\* ---- generate_pr --------------------------------------------------------
\* The arguments the orchestrator under study was constructed with.
SampleArgs == [n \in HandleNames |-> 1]

\* The state after construction.
Init ==
    /\ ctor = "done"
    /\ args = SampleArgs
    /\ kwargs = {}
    /\ self = InitAttrs(args)
    /\ warnings = InitWarnings(kwargs)
    /\ model \in Models
    /\ overridden \in BOOLEAN
    /\ Idle

Goto(i, l) == pc' = [pc EXCEPT ![i] = l]

Record(i, c) == trace' = [trace EXCEPT ![i] = Append(@, c)]

\* An error leaves generate_pr for the caller.
Propagate(i, err) ==
    /\ Goto(i, "raised")
    /\ exc' = [exc EXCEPT ![i] = err]

\* Variant of Catches: `except BaseException`, or a bare `except:`.
Catches_everything(err) == TRUE

\* `except Exception`: the clause matches instances of Exception only.
Catches(err) == err \in ExceptionErrors

\* The caller invokes generate_pr(event): the i-th call on this orchestrator,
\* made once the calls before it are back with the caller.
Call(i) ==
    /\ ctor = "done"
    /\ pc[i] = "idle"
    /\ \A j \in Inv : j < i => pc[j] \in {"returned", "raised"}
    /\ \E ev \in Events :
          /\ event' = [event EXCEPT ![i] = ev]
          /\ given' = [given EXCEPT ![i] = ev]
    /\ Goto(i, "L60")
    /\ UNCHANGED <<ctorVars, envVars, caught, exc, outcome, trace>>

\* Variant of Update: generate_pr replaces the publish service it was given.
Update_rebindsPublish(i) ==
    /\ pc[i] = "L60"
    /\ self' = [self EXCEPT !["publish_service"] = 0]
    /\ Record(i, UpdateCall(FALSE))
    /\ Goto(i, "L63")
    /\ UNCHANGED <<ctor, args, kwargs, warnings, envVars, event, given, caught, exc, outcome>>

\* line 60: self.publish_service.update()
Update(i) ==
    /\ pc[i] = "L60"
    /\ Record(i, UpdateCall(FALSE))
    /\ Goto(i, "L63")
    /\ UNCHANGED <<ctorVars, envVars, event, given, caught, exc, outcome>>

\* Variant of UpdateRaises: line 60 inside the try block, so that the except
\* clause handles an error of the placeholder publish.
UpdateRaises_caught(i) ==
    /\ pc[i] = "L60"
    /\ Record(i, UpdateCall(TRUE))
    /\ caught' = [caught EXCEPT ![i] = PublishError]
    /\ Goto(i, "L77")
    /\ UNCHANGED <<ctorVars, envVars, event, given, exc, outcome>>

UpdateRaises(i) ==
    /\ pc[i] = "L60"
    /\ Record(i, UpdateCall(TRUE))
    /\ Propagate(i, PublishError)
    /\ UNCHANGED <<ctorVars, envVars, event, given, caught, outcome>>

\* Variant of UsesGpt35: a prefix test, model.startswith("gpt-3.5-turbo").
UsesGpt35_prefix(m) == m \in {"gpt-3.5-turbo", "gpt-3.5-turbo-16k"}

\* line 63: the advisory guard
UsesGpt35(m) == m = GPT35

CheckModel(i) ==
    /\ pc[i] = "L63"
    /\ Goto(i, IF UsesGpt35(model) THEN "L64" ELSE "L73")
    /\ UNCHANGED <<ctorVars, envVars, event, given, caught, exc, outcome, trace>>

\* lines 64-71: self.publish_service.publish_update(...)
\* Variant of Advisory: the notice takes the place of the start log entry.
Advisory_insteadOfStartLog(i) ==
    /\ pc[i] = "L64"
    /\ Record(i, AdvisoryCall(FALSE))
    /\ Goto(i, "L75")
    /\ UNCHANGED <<ctorVars, envVars, event, given, caught, exc, outcome>>

Advisory(i) ==
    /\ pc[i] = "L64"
    /\ Record(i, AdvisoryCall(FALSE))
    /\ Goto(i, "L73")
    /\ UNCHANGED <<ctorVars, envVars, event, given, caught, exc, outcome>>

AdvisoryRaises(i) ==
    /\ pc[i] = "L64"
    /\ Record(i, AdvisoryCall(TRUE))
    /\ Propagate(i, PublishError)
    /\ UNCHANGED <<ctorVars, envVars, event, given, caught, outcome>>

\* line 73: self.log.info("Generating changes", event_=event)
\* Variant of LogStart: the local name is rebound to a changed copy of the
\* event after the start log, e.g. `event = event.copy(update=...)`.
LogStart_rebindsEvent(i) ==
    /\ pc[i] = "L73"
    /\ Record(i, LogInfoCall("Generating changes", event[i], FALSE))
    /\ event' = [event EXCEPT ![i] = CHOOSE ev \in Events : ev # event[i]]
    /\ Goto(i, "L75")
    /\ UNCHANGED <<ctorVars, envVars, given, caught, exc, outcome>>

LogStart(i) ==
    /\ pc[i] = "L73"
    /\ Record(i, LogInfoCall("Generating changes", event[i], FALSE))
    /\ Goto(i, "L75")
    /\ UNCHANGED <<ctorVars, envVars, event, given, caught, exc, outcome>>

LogStartRaises(i) ==
    /\ pc[i] = "L73"
    /\ Record(i, LogInfoCall("Generating changes", event[i], TRUE))
    /\ Propagate(i, LogError)
    /\ UNCHANGED <<ctorVars, envVars, event, given, caught, outcome>>

\* Variant of Enter: finalize(success=True) is called ahead of the try block.
Enter_finalizesFirst(i) ==
    /\ pc[i] = "L75"
    /\ trace' = [trace EXCEPT ![i] =
                    Append(Append(@, FinalizeCall(TRUE, FALSE)), RunCall(event[i]))]
    /\ Goto(i, "running")
    /\ UNCHANGED <<ctorVars, envVars, event, given, caught, exc, outcome>>

\* Variant of Enter: _generate_pr is started and not waited for.
Enter_notAwaited(i) ==
    /\ pc[i] = "L75"
    /\ Record(i, RunCall(event[i]))
    /\ Goto(i, "L81")
    /\ UNCHANGED <<ctorVars, envVars, event, given, caught, exc, outcome>>

\* line 75: self._generate_pr(event)
Enter(i) ==
    /\ pc[i] = "L75"
    /\ Record(i, RunCall(event[i]))
    /\ Goto(i, "running")
    /\ UNCHANGED <<ctorVars, envVars, event, given, caught, exc, outcome>>

\* lines 74-76: an error raised inside the try block reaches the except clause;
\* one the clause does not match leaves generate_pr at once.
Except(i, err) ==
    IF Catches(err)
    THEN /\ caught' = [caught EXCEPT ![i] = err]
         /\ Goto(i, "L77")
         /\ UNCHANGED exc
    ELSE /\ Propagate(i, err)
         /\ UNCHANGED caught

\* lines 85-93: the base _generate_pr
\* Variant of BaseGeneratePr: a base body of `pass`, which returns None.
BaseGeneratePr_pass(i) ==
    /\ pc[i] = "running"
    /\ ~overridden
    /\ outcome' = [outcome EXCEPT ![i] = "return"]
    /\ Goto(i, "L81")
    /\ UNCHANGED <<ctorVars, envVars, event, given, caught, exc, trace>>

BaseGeneratePr(i) ==
    /\ pc[i] = "running"
    /\ ~overridden
    /\ outcome' = [outcome EXCEPT ![i] = "NotImplementedError"]
    /\ Except(i, "NotImplementedError")
    /\ UNCHANGED <<ctorVars, envVars, event, given, trace>>

\* An overriding _generate_pr: progress publishes, then a return or an error.
NumProgress(i) ==
    Cardinality({k \in 1..Len(trace[i]) : trace[i][k].by = "strategy"})

StrategyProgress(i) ==
    /\ pc[i] = "running"
    /\ overridden
    /\ NumProgress(i) < MaxProgress
    /\ Record(i, ProgressCall)
    /\ UNCHANGED <<ctorVars, envVars, pc, event, given, caught, exc, outcome>>

StrategyReturns(i) ==
    /\ pc[i] = "running"
    /\ overridden
    /\ outcome' = [outcome EXCEPT ![i] = "return"]
    /\ Goto(i, "L81")
    /\ UNCHANGED <<ctorVars, envVars, event, given, caught, exc, trace>>

StrategyRaises(i) ==
    /\ pc[i] = "running"
    /\ overridden
    /\ \E err \in StrategyErrors :
          /\ outcome' = [outcome EXCEPT ![i] = err]
          /\ Except(i, err)
    /\ UNCHANGED <<ctorVars, envVars, event, given, trace>>

\* Variant of LogException: lines 77 and 78 swapped, finalize before the log.
LogException_afterFinalize(i) ==
    /\ pc[i] = "L77"
    /\ trace' = [trace EXCEPT ![i] =
                    Append(Append(@, FinalizeCall(FALSE, FALSE)),
                           LogExceptionCall(event[i], caught[i], FALSE))]
    /\ Goto(i, "L79")
    /\ UNCHANGED <<ctorVars, envVars, event, given, caught, exc, outcome>>

\* line 77: self.log.exception("Failed to generate pull request", ...)
LogException(i) ==
    /\ pc[i] = "L77"
    /\ Record(i, LogExceptionCall(event[i], caught[i], FALSE))
    /\ Goto(i, "L78")
    /\ UNCHANGED <<ctorVars, envVars, event, given, caught, exc, outcome>>

LogExceptionRaises(i) ==
    /\ pc[i] = "L77"
    /\ Record(i, LogExceptionCall(event[i], caught[i], TRUE))
    /\ Propagate(i, LogError)
    /\ UNCHANGED <<ctorVars, envVars, event, given, caught, outcome>>

\* line 78: self.publish_service.finalize(success=False)
\* Variant of FinalizeFailure: the except clause forgets the finalize call.
FinalizeFailure_omitted(i) ==
    /\ pc[i] = "L78"
    /\ Goto(i, "L79")
    /\ UNCHANGED <<ctorVars, envVars, event, given, caught, exc, outcome, trace>>

\* Variant of FinalizeFailure: the except clause passes success=True.
FinalizeFailure_flagTrue(i) ==
    /\ pc[i] = "L78"
    /\ Record(i, FinalizeCall(TRUE, FALSE))
    /\ Goto(i, "L79")
    /\ UNCHANGED <<ctorVars, envVars, event, given, caught, exc, outcome>>

FinalizeFailure(i) ==
    /\ pc[i] = "L78"
    /\ Record(i, FinalizeCall(FALSE, FALSE))
    /\ Goto(i, "L79")
    /\ UNCHANGED <<ctorVars, envVars, event, given, caught, exc, outcome>>

FinalizeFailureRaises(i) ==
    /\ pc[i] = "L78"
    /\ Record(i, FinalizeCall(FALSE, TRUE))
    /\ Propagate(i, PublishError)
    /\ UNCHANGED <<ctorVars, envVars, event, given, caught, outcome>>

\* line 79: raise e
\* Variant of Reraised: `raise RuntimeError(...) from e` in place of `raise e`.
Reraised_wrapped(err) == "RuntimeError"

Reraised(err) == err

\* Variant of Reraise: the except clause retries _generate_pr.
Reraise_retries(i) ==
    /\ pc[i] = "L79"
    /\ Goto(i, "L75")
    /\ UNCHANGED <<ctorVars, envVars, event, given, caught, exc, outcome, trace>>

Reraise(i) ==
    /\ pc[i] = "L79"
    /\ Propagate(i, Reraised(caught[i]))
    /\ UNCHANGED <<ctorVars, envVars, event, given, caught, outcome, trace>>

\* Variant of LogDone: generate_pr returns after the log call, and the
\* finalize of line 83 is missing.
LogDone_thenReturns(i) ==
    /\ pc[i] = "L81"
    /\ Record(i, LogInfoCall("Generated changes", event[i], FALSE))
    /\ Goto(i, "returned")
    /\ UNCHANGED <<ctorVars, envVars, event, given, caught, exc, outcome>>

\* line 81: self.log.info("Generated changes", event_=event)
LogDone(i) ==
    /\ pc[i] = "L81"
    /\ Record(i, LogInfoCall("Generated changes", event[i], FALSE))
    /\ Goto(i, "L83")
    /\ UNCHANGED <<ctorVars, envVars, event, given, caught, exc, outcome>>

LogDoneRaises(i) ==
    /\ pc[i] = "L81"
    /\ Record(i, LogInfoCall("Generated changes", event[i], TRUE))
    /\ Propagate(i, LogError)
    /\ UNCHANGED <<ctorVars, envVars, event, given, caught, outcome>>

\* line 83: self.publish_service.finalize(success=True), then the implicit return
\* Variant of FinalizeSuccess: the success path passes success=False.
FinalizeSuccess_flagFalse(i) ==
    /\ pc[i] = "L83"
    /\ Record(i, FinalizeCall(FALSE, FALSE))
    /\ Goto(i, "returned")
    /\ UNCHANGED <<ctorVars, envVars, event, given, caught, exc, outcome>>

\* Variant of FinalizeSuccess: the flag comes from a failure mark kept on the
\* object, which any invocation that failed has set.
FinalizeSuccess_sharedFlag(i) ==
    /\ pc[i] = "L83"
    /\ Record(i, FinalizeCall(\A j \in Inv : outcome[j] \in {NoError, "return"}, FALSE))
    /\ Goto(i, "returned")
    /\ UNCHANGED <<ctorVars, envVars, event, given, caught, exc, outcome>>

FinalizeSuccess(i) ==
    /\ pc[i] = "L83"
    /\ Record(i, FinalizeCall(TRUE, FALSE))
    /\ Goto(i, "returned")
    /\ UNCHANGED <<ctorVars, envVars, event, given, caught, exc, outcome>>

\* Variant of FinalizeSuccessRaises: line 83 inside the try block, so that the
\* except clause handles an error of finalize(success=True).
FinalizeSuccessRaises_caught(i) ==
    /\ pc[i] = "L83"
    /\ Record(i, FinalizeCall(TRUE, TRUE))
    /\ caught' = [caught EXCEPT ![i] = PublishError]
    /\ Goto(i, "L77")
    /\ UNCHANGED <<ctorVars, envVars, event, given, exc, outcome>>

FinalizeSuccessRaises(i) ==
    /\ pc[i] = "L83"
    /\ Record(i, FinalizeCall(TRUE, TRUE))
    /\ Propagate(i, PublishError)
    /\ UNCHANGED <<ctorVars, envVars, event, given, caught, outcome>>

Next ==
    \E i \in Inv :
        \/ Call(i)
        \/ Update(i)
        \/ UpdateRaises(i)
        \/ CheckModel(i)
        \/ Advisory(i)
        \/ AdvisoryRaises(i)
        \/ LogStart(i)
        \/ LogStartRaises(i)
        \/ Enter(i)
        \/ BaseGeneratePr(i)
        \/ StrategyProgress(i)
        \/ StrategyReturns(i)
        \/ StrategyRaises(i)
        \/ LogException(i)
        \/ LogExceptionRaises(i)
        \/ FinalizeFailure(i)
        \/ FinalizeFailureRaises(i)
        \/ Reraise(i)
        \/ LogDone(i)
        \/ LogDoneRaises(i)
        \/ FinalizeSuccess(i)
        \/ FinalizeSuccessRaises(i)

Spec == Init /\ [][Next]_vars

\* ---- fairness ------------------------------------------------------------
\* Once called, an invocation runs on one thread of control, which executes
\* its next statement; the caller is under no obligation to call at all.
Step(i) ==
    \/ Update(i) \/ UpdateRaises(i) \/ CheckModel(i)
    \/ Advisory(i) \/ AdvisoryRaises(i)
    \/ LogStart(i) \/ LogStartRaises(i)
    \/ Enter(i) \/ BaseGeneratePr(i)
    \/ StrategyProgress(i) \/ StrategyReturns(i) \/ StrategyRaises(i)
    \/ LogException(i) \/ LogExceptionRaises(i)
    \/ FinalizeFailure(i) \/ FinalizeFailureRaises(i) \/ Reraise(i)
    \/ LogDone(i) \/ LogDoneRaises(i)
    \/ FinalizeSuccess(i) \/ FinalizeSuccessRaises(i)

FairSpec == Init /\ [][Next]_vars /\ \A i \in Inv : WF_vars(Step(i))

\* ---- reading a trace ----------------------------------------------------
Positions(i, op) ==
    {k \in 1..Len(trace[i]) : trace[i][k].op = op /\ trace[i][k].by = "base"}

Updates(i) == Positions(i, "update")

Advisories(i) == Positions(i, "publish_update")

Runs(i) == Positions(i, "_generate_pr")

Finalizes(i) == Positions(i, "finalize")

FinalizesWith(i, success) == {k \in Finalizes(i) : trace[i][k].success = success}

Returned(i, k) == ~trace[i][k].raises

\* Control is back with the caller of invocation i.
Left(i) == pc[i] \in {"returned", "raised"}

\* _generate_pr of invocation i has ended, and how.
RanToReturn(i) == outcome[i] = "return"

RanToError(i) == outcome[i] \notin {NoError, "return"}

RanToException(i) == outcome[i] \in ExceptionErrors

\* The log call that follows _generate_pr (line 77 or line 81) has returned.
OutcomeLogged(i) ==
    \E k \in Positions(i, "log.exception") \cup Positions(i, "log.info") :
        /\ Returned(i, k)
        /\ \E r \in Runs(i) : r < k

\* ---- C1 ------------------------------------------------------------------
\* C1 as stated: whenever an invocation whose _generate_pr ended (by a return
\* or by any error) is back with its caller, the publish service has received
\* exactly one finalize call, after exactly one placeholder publish.
C1_FinalizeOnceForEveryOutcome ==
    \A i \in Inv :
        Left(i) /\ outcome[i] # NoError =>
            /\ Cardinality(Finalizes(i)) = 1
            /\ Cardinality(Updates(i)) = 1
            /\ \A f \in Finalizes(i) : \A u \in Updates(i) : u < f

\* C1, amended: when _generate_pr returned or raised an error derived from
\* Exception, and the log call following it returned, an invocation that is
\* back with its caller has made exactly one finalize call.  No invocation
\* makes more than one finalize call, and every finalize call comes after the
\* one placeholder publish of its invocation.
C1_FinalizeOnce ==
    \A i \in Inv :
        /\ Cardinality(Finalizes(i)) <= 1
        /\ \A f \in Finalizes(i) :
              /\ Cardinality(Updates(i)) = 1
              /\ \A u \in Updates(i) : u < f /\ Returned(i, u)
        /\ Left(i) /\ (RanToReturn(i) \/ RanToException(i)) /\ OutcomeLogged(i) =>
              Cardinality(Finalizes(i)) = 1

\* One invocation has returned and another has failed, each finalized once.
C1_Witness ==
    \E i, j \in Inv :
        /\ pc[i] = "returned" /\ RanToReturn(i) /\ Cardinality(Finalizes(i)) = 1
        /\ pc[j] = "raised" /\ RanToException(j) /\ OutcomeLogged(j)
        /\ Cardinality(Finalizes(j)) = 1

\* ---- C2 ------------------------------------------------------------------
\* C2 as stated: when _generate_pr raised X, the invocation that is back with
\* its caller has published the placeholder once, then called
\* finalize(success=False) once and finalize(success=True) never, and has
\* raised X itself.
C2_FailureRaisesSameError ==
    \A i \in Inv :
        Left(i) /\ RanToError(i) =>
            /\ Cardinality(Updates(i)) = 1
            /\ Cardinality(FinalizesWith(i, FALSE)) = 1
            /\ FinalizesWith(i, TRUE) = {}
            /\ \A f \in Finalizes(i) : \A u \in Updates(i) : u < f
            /\ pc[i] = "raised"
            /\ exc[i] = outcome[i]

\* C2, amended: when _generate_pr raised an error X derived from Exception,
\* the invocation has published the placeholder once and never calls
\* finalize(success=True); once log.exception has returned it calls
\* finalize(success=False) exactly once; it ends by raising, and what it raises
\* is X itself when that finalize call returned and otherwise the error of the
\* call (log.exception or finalize) that raised.
C2_FailurePath ==
    \A i \in Inv :
        RanToException(i) =>
            /\ Cardinality(Updates(i)) = 1
            /\ FinalizesWith(i, TRUE) = {}
            /\ Cardinality(FinalizesWith(i, FALSE)) <= 1
            /\ \A f \in Finalizes(i) : \A u \in Updates(i) : u < f
            /\ Left(i) =>
                  /\ pc[i] = "raised"
                  /\ OutcomeLogged(i) <=> Cardinality(FinalizesWith(i, FALSE)) = 1
                  /\ (\E f \in Finalizes(i) : Returned(i, f)) => exc[i] = outcome[i]
                  /\ (\E f \in Finalizes(i) : ~Returned(i, f)) => exc[i] = PublishError
                  /\ ~OutcomeLogged(i) => exc[i] = LogError

\* CollaboratorError went through log.exception and finalize(success=False)
\* and reached the caller.
C2_Witness ==
    \E i \in Inv :
        /\ pc[i] = "raised"
        /\ outcome[i] = "CollaboratorError"
        /\ exc[i] = "CollaboratorError"
        /\ \E f \in FinalizesWith(i, FALSE) : Returned(i, f)

\* ---- C3 ------------------------------------------------------------------
\* C3 as stated: when _generate_pr returned normally, the invocation that is
\* back with its caller has published the placeholder once, then called
\* finalize(success=True) once and finalize(success=False) never, and has
\* returned normally.
C3_SuccessReturnsNormally ==
    \A i \in Inv :
        Left(i) /\ RanToReturn(i) =>
            /\ Cardinality(Updates(i)) = 1
            /\ Cardinality(FinalizesWith(i, TRUE)) = 1
            /\ FinalizesWith(i, FALSE) = {}
            /\ \A f \in Finalizes(i) : \A u \in Updates(i) : u < f
            /\ pc[i] = "returned"

\* C3, amended: when _generate_pr returned normally, the invocation has
\* published the placeholder once and never calls finalize(success=False);
\* once the "Generated changes" log call has returned it calls
\* finalize(success=True) exactly once, after the placeholder; it returns
\* normally exactly when that finalize call returns, and otherwise raises the
\* error of the call (log.info or finalize) that raised.
C3_SuccessPath ==
    \A i \in Inv :
        RanToReturn(i) =>
            /\ Cardinality(Updates(i)) = 1
            /\ FinalizesWith(i, FALSE) = {}
            /\ Cardinality(FinalizesWith(i, TRUE)) <= 1
            /\ \A f \in Finalizes(i) : \A u \in Updates(i) : u < f
            /\ Left(i) =>
                  /\ OutcomeLogged(i) <=> Cardinality(FinalizesWith(i, TRUE)) = 1
                  /\ pc[i] = "returned" <=> \E f \in Finalizes(i) : Returned(i, f)
                  /\ (\E f \in Finalizes(i) : ~Returned(i, f)) => exc[i] = PublishError
                  /\ ~OutcomeLogged(i) => exc[i] = LogError

\* A successful run: placeholder, _generate_pr, finalize(success=True), return.
C3_Witness ==
    \E i \in Inv :
        /\ pc[i] = "returned"
        /\ RanToReturn(i)
        /\ Cardinality(FinalizesWith(i, TRUE)) = 1
        /\ exc[i] = NoError

\* ---- C4 ------------------------------------------------------------------
\* The step an invocation that is back with its caller left from: the call
\* that raised, `raise e` (line 79), or the return after line 83.
ExitStep(i) ==
    IF pc[i] = "returned" THEN "return"
    ELSE IF Len(trace[i]) > 0 /\ trace[i][Len(trace[i])].raises
         THEN trace[i][Len(trace[i])].op
    ELSE IF outcome[i] \in NonExceptionErrors THEN "_generate_pr"
    ELSE "raise e"

\* C4 as stated: whatever step an invocation leaves from, finalize has been
\* called exactly once when control is back with the caller, with
\* success=True exactly when _generate_pr returned normally.
C4_FinalizeOnEveryExit ==
    \A i \in Inv :
        Left(i) =>
            /\ Cardinality(Finalizes(i)) = 1
            /\ \A f \in Finalizes(i) : trace[i][f].success = RanToReturn(i)

\* C4, amended: finalize is called at most once, with success=True only after
\* _generate_pr returned normally and success=False only after it raised an
\* error derived from Exception.  When control is back with the caller it has
\* been called exactly once if the invocation left by returning, by `raise e`
\* or from the finalize call itself, and not at all if it left from the
\* placeholder publish, the advisory publish, a logging call, or from
\* _generate_pr with an error not derived from Exception.
C4_FinalizeByExitStep ==
    \A i \in Inv :
        /\ Cardinality(Finalizes(i)) <= 1
        /\ \A f \in Finalizes(i) :
              IF trace[i][f].success THEN RanToReturn(i) ELSE RanToException(i)
        /\ Left(i) =>
              /\ ExitStep(i) \in {"return", "raise e", "finalize"} =>
                    Cardinality(Finalizes(i)) = 1
              /\ ExitStep(i) \in {"update", "publish_update", "log.info",
                                  "log.exception", "_generate_pr"} =>
                    Finalizes(i) = {}

\* One invocation left from its finalize(success=False) call, which raised;
\* another left from the placeholder publish.
C4_Witness ==
    \E i, j \in Inv :
        /\ Left(i) /\ ExitStep(i) = "finalize" /\ FinalizesWith(i, FALSE) # {}
        /\ Left(j) /\ ExitStep(j) = "update" /\ Finalizes(j) = {}

\* ---- C5 ------------------------------------------------------------------
\* C5 as stated: whatever kind of error _generate_pr raised, once the
\* invocation is back with its caller finalize(success=False) has been called
\* and the caller has received that same error.
C5_AnyErrorFinalizedThenReraised ==
    \A i \in Inv :
        Left(i) /\ RanToError(i) =>
            /\ FinalizesWith(i, FALSE) # {}
            /\ exc[i] = outcome[i]

\* C5, amended: an error derived from Exception is logged and, once that log
\* call has returned, finalize(success=False) is called before anything
\* reaches the caller; the original error reaches the caller only after that
\* finalize call has returned, and is then what the caller receives.  An error
\* not derived from Exception (KeyboardInterrupt, SystemExit, GeneratorExit)
\* reaches the caller at once, unchanged, with no log.exception and no
\* finalize call.
C5_ExceptionFinalizedThenReraised ==
    \A i \in Inv :
        /\ RanToException(i) /\ Left(i) /\ OutcomeLogged(i) => FinalizesWith(i, FALSE) # {}
        /\ RanToException(i) /\ Left(i) /\ exc[i] = outcome[i] =>
              \E f \in FinalizesWith(i, FALSE) : Returned(i, f)
        /\ RanToException(i) /\ Left(i) /\ (\E f \in Finalizes(i) : Returned(i, f)) =>
              exc[i] = outcome[i]
        /\ outcome[i] \in NonExceptionErrors =>
              /\ pc[i] = "raised"
              /\ exc[i] = outcome[i]
              /\ Finalizes(i) = {}
              /\ Positions(i, "log.exception") = {}

\* KeyboardInterrupt left one invocation unfinalized; CollaboratorError was
\* finalized and re-raised by another.
C5_Witness ==
    \E i, j \in Inv :
        /\ pc[i] = "raised" /\ outcome[i] = "KeyboardInterrupt" /\ Finalizes(i) = {}
        /\ pc[j] = "raised" /\ outcome[j] = "CollaboratorError"
        /\ exc[j] = "CollaboratorError" /\ FinalizesWith(j, FALSE) # {}

\* ---- C6 ------------------------------------------------------------------
\* C6: _generate_pr is called only after the placeholder publish has returned;
\* finalize is called only after _generate_pr was called and has ended, so
\* never while it is still running.
C6_PlaceholderRunFinalizeOrder ==
    \A i \in Inv :
        /\ \A r \in Runs(i) : \E u \in Updates(i) : u < r /\ Returned(i, u)
        /\ \A f \in Finalizes(i) :
              /\ \E r \in Runs(i) : r < f
              /\ outcome[i] # NoError
        /\ pc[i] \in {"idle", "L60", "L63", "L64", "L73", "L75", "running"} =>
              Finalizes(i) = {}

\* Both orders are exercised: a finalize after a completed _generate_pr, and
\* a _generate_pr still running after its placeholder.
C6_Witness ==
    \E i, j \in Inv :
        /\ Finalizes(i) # {} /\ Runs(i) # {} /\ Updates(i) # {}
        /\ pc[j] = "running" /\ Updates(j) # {}

C8_NeverLeftUnfinalized ==
    \A i \in Inv :
        Left(i) /\ (\E u \in Updates(i) : Returned(i, u)) => Finalizes(i) # {}

\* The invocation is back with its caller on an error that bypasses finalize:
\* one raised by the advisory publish or a logging call, or one raised by
\* _generate_pr that does not derive from Exception.
LeftBypassingFinalize(i) ==
    /\ pc[i] = "raised"
    /\ ExitStep(i) \in {"publish_update", "log.info", "log.exception", "_generate_pr"}
    /\ Finalizes(i) = {}

\* C8, amended: every invocation whose placeholder publish has returned
\* eventually makes a finalize call, unless it ends with an error raised by
\* the advisory publish or a logging call, or with an error of _generate_pr
\* that does not derive from Exception (provided _generate_pr terminates).
C8_EventuallyFinalizedOrBypassed ==
    \A i \in Inv :
        (\E u \in Updates(i) : Returned(i, u)) ~> (Finalizes(i) # {} \/ LeftBypassingFinalize(i))

\* One invocation was finalized after its placeholder; another came back from
\* a raising log call with its placeholder published and no finalize.
C8_Witness ==
    \E i, j \in Inv :
        /\ Updates(i) # {} /\ Finalizes(i) # {} /\ Left(i)
        /\ Updates(j) # {} /\ LeftBypassingFinalize(j) /\ ExitStep(j) = "log.info"

C10_HandlesNeverReassigned ==
    /\ DOMAIN self = HandleNames \cup {"log"}
    /\ \A n \in HandleNames : self[n] = args[n]
    /\ self["log"] = "logger(service=brain)"

\* One invocation has returned and another has raised; the handles stand.
C10_Witness ==
    \E i, j \in Inv :
        /\ pc[i] = "returned"
        /\ pc[j] = "raised" /\ RanToException(j)
        /\ self["publish_service"] = args["publish_service"]

\* ---- C11 -----------------------------------------------------------------
StartLogs(i) ==
    {k \in Positions(i, "log.info") : trace[i][k].text = "Generating changes"}

DoneLogs(i) ==
    {k \in Positions(i, "log.info") : trace[i][k].text = "Generated changes"}

\* C11: every finalize(success=False) follows a log.exception call of the same
\* invocation that carries the event and the error _generate_pr raised, and
\* the error reaches the caller only after that finalize call; every
\* finalize(success=True) follows the "Generated changes" log call; the
\* "Generating changes" log call follows the placeholder and advisory
\* publishes and precedes the _generate_pr call.
C11_LogsPrecedeFinalize ==
    \A i \in Inv :
        /\ \A f \in FinalizesWith(i, FALSE) :
              \E k \in Positions(i, "log.exception") :
                  /\ k < f
                  /\ Returned(i, k)
                  /\ trace[i][k].ev = given[i]
                  /\ trace[i][k].err = outcome[i]
        /\ pc[i] = "raised" /\ RanToException(i) /\ exc[i] = outcome[i] =>
              /\ FinalizesWith(i, FALSE) # {}
              /\ Positions(i, "log.exception") # {}
        /\ \A f \in FinalizesWith(i, TRUE) :
              \E k \in DoneLogs(i) : k < f /\ Returned(i, k)
        /\ \A r \in Runs(i) : \E k \in StartLogs(i) : k < r /\ Returned(i, k)
        /\ \A k \in StartLogs(i) :
              /\ \E u \in Updates(i) : u < k
              /\ \A a \in Advisories(i) : a < k
              /\ \A r \in Runs(i) : k < r
              /\ model = "gpt-3.5-turbo" => Advisories(i) # {}

\* A failed and a successful invocation, each finalized after its outcome log,
\* under the model that also publishes the advisory.
C11_Witness ==
    \E i, j \in Inv :
        /\ model = "gpt-3.5-turbo"
        /\ pc[i] = "raised" /\ exc[i] = "CollaboratorError" /\ FinalizesWith(i, FALSE) # {}
        /\ pc[j] = "returned" /\ FinalizesWith(j, TRUE) # {} /\ DoneLogs(j) # {}

\* ---- C12 -----------------------------------------------------------------
\* The placeholder publish and (if made) the advisory publish have returned.
PublishesSucceeded(i) ==
    /\ \E u \in Updates(i) : Returned(i, u)
    /\ \A a \in Advisories(i) : Returned(i, a)

\* C12 as stated: _generate_pr is called at most once per invocation, and
\* exactly once in an invocation whose placeholder and advisory publishes
\* succeeded; it is not called again after it raised; the placeholder publish
\* is not repeated.
C12_RunOnceWhenPublishesSucceed ==
    \A i \in Inv :
        /\ Cardinality(Runs(i)) <= 1
        /\ Cardinality(Updates(i)) <= 1
        /\ RanToError(i) => pc[i] \notin {"L60", "L75", "running"}
        /\ Left(i) /\ PublishesSucceeded(i) => Cardinality(Runs(i)) = 1

\* C12, amended: as stated, with _generate_pr called exactly once in an
\* invocation whose placeholder and advisory publishes succeeded and whose
\* "Generating changes" log call returned; when that log call raises,
\* _generate_pr is not called at all.
C12_NothingRetried ==
    \A i \in Inv :
        /\ Cardinality(Runs(i)) <= 1
        /\ Cardinality(Updates(i)) <= 1
        /\ RanToError(i) => pc[i] \notin {"L60", "L75", "running"}
        /\ Left(i) /\ PublishesSucceeded(i) /\ (\E k \in StartLogs(i) : Returned(i, k)) =>
              Cardinality(Runs(i)) = 1
        /\ (\E k \in StartLogs(i) : ~Returned(i, k)) => Runs(i) = {}

\* _generate_pr raised, was called once, and its error went to the caller.
C12_Witness ==
    \E i \in Inv :
        /\ pc[i] = "raised"
        /\ RanToException(i)
        /\ exc[i] = outcome[i]
        /\ Cardinality(Runs(i)) = 1
        /\ Cardinality(Updates(i)) = 1

\* ---- C13 -----------------------------------------------------------------
\* The progress publishes _generate_pr made in invocation i.
Progresses(i) == {k \in 1..Len(trace[i]) : trace[i][k].by = "strategy"}

\* Every progress publish lies after the placeholder publish and the advisory
\* and before every finalize call of its invocation.
ProgressInsideEnvelope(i) ==
    \A p \in Progresses(i) :
        /\ \E u \in Updates(i) : u < p /\ Returned(i, u)
        /\ \A a \in Advisories(i) : a < p
        /\ \A f \in Finalizes(i) : p < f

ConcCall(i) ==
    /\ ctor = "done"
    /\ pc[i] = "idle"
    /\ \A j \in Inv : j < i => pc[j] # "idle"
    /\ \E ev \in Events :
          /\ event' = [event EXCEPT ![i] = ev]
          /\ given' = [given EXCEPT ![i] = ev]
    /\ Goto(i, "L60")
    /\ UNCHANGED <<ctorVars, envVars, caught, exc, outcome, trace>>

ConcNext == \E i \in Inv : ConcCall(i) \/ Step(i)

ConcSpec == Init /\ [][ConcNext]_vars

\* C14 as stated: once interleaved invocations are all back with their
\* callers, each has made exactly one placeholder publish followed by exactly
\* one finalize call, whose flag is the outcome of its own _generate_pr.
C14_EachOnePlaceholderOneFinalize ==
    (\A i \in Inv : Left(i)) =>
        \A i \in Inv :
            /\ Cardinality(Updates(i)) = 1
            /\ Cardinality(Finalizes(i)) = 1
            /\ \A f \in Finalizes(i) :
                  /\ \A u \in Updates(i) : u < f
                  /\ trace[i][f].success = RanToReturn(i)

\* C14, amended: however the invocations interleave, each makes at most one
\* placeholder publish and at most one finalize call, the finalize after its
\* own placeholder, with success=True only if its own _generate_pr returned
\* and success=False only if its own _generate_pr raised an error derived
\* from Exception, whatever the other invocations did; it has made exactly one
\* finalize call when it is back with its caller after such an outcome and a
\* returned outcome log call.
C14_InterleavedInvocationsIndependent ==
    \A i \in Inv :
        /\ Cardinality(Updates(i)) <= 1
        /\ Cardinality(Finalizes(i)) <= 1
        /\ \A f \in Finalizes(i) :
              /\ \E u \in Updates(i) : u < f /\ Returned(i, u)
              /\ IF trace[i][f].success THEN RanToReturn(i) ELSE RanToException(i)
        /\ \A j \in Inv \ {i} :
              RanToReturn(i) /\ RanToError(j) =>
                  FinalizesWith(i, FALSE) = {} /\ FinalizesWith(j, TRUE) = {}
        /\ /\ Left(i)
           /\ RanToReturn(i) \/ RanToException(i)
           /\ OutcomeLogged(i)
           => Cardinality(Finalizes(i)) = 1

\* Invocation j was called after i was, failed and made its one placeholder
\* publish and its one finalize(success=False) while i was still in flight;
\* i, whose own _generate_pr has returned, is about to make finalize(success=True).
C14_Witness ==
    \E i, j \in Inv :
        /\ i < j
        /\ pc[j] = "raised" /\ RanToException(j)
        /\ Cardinality(Updates(j)) = 1 /\ FinalizesWith(j, FALSE) # {}
        /\ pc[i] = "L83" /\ RanToReturn(i) /\ Finalizes(i) = {}

\* ---- C15 -----------------------------------------------------------------
\* Two runs to compare.  completions_repo.model is read afresh at line 63 of
\* every invocation, so the host can change it while no invocation is in
\* flight; invocation 1 is made while the model is the sentinel and every later
\* invocation while it is not.
Reconfigure ==
    /\ ctor = "done"
    /\ \A i \in Inv : pc[i] = "idle" \/ Left(i)
    /\ \E m \in Models \ {model} : model' = m
    /\ UNCHANGED <<ctorVars, overridden, pc, event, given, caught, exc, outcome, trace>>

PairCall(i) ==
    /\ UsesGpt35(model) <=> i = 1
    /\ Call(i)

PairNext == Reconfigure \/ \E i \in Inv : PairCall(i) \/ Step(i)

PairSpec == Init /\ [][PairNext]_vars

\* The calls of a run with the advisory publish taken out.
StripAdvisory(t) == SelectSeq(t, LAMBDA c : ~(c.op = "publish_update" /\ c.by = "base"))

\* The kinds of call, other than the advisory publish, that run i made of its
\* collaborators, and those of them that raised.
Kind(c) == <<c.op, c.text, c.success>>

Made(i) == {Kind(trace[i][k]) : k \in (1..Len(trace[i])) \ Advisories(i)}

Raising(i) ==
    {Kind(trace[i][k]) : k \in {n \in 1..Len(trace[i]) : trace[i][n].raises} \ Advisories(i)}

\* Runs i and j got the same event, the same behaviour of _generate_pr where
\* both invoked it, and the same behaviour of the collaborators in the calls
\* both of them made.
SameRun(i, j) ==
    /\ given[i] = given[j]
    /\ Runs(i) # {} /\ Runs(j) # {} =>
          /\ outcome[i] = outcome[j]
          /\ Cardinality(Progresses(i)) = Cardinality(Progresses(j))
    /\ \A c \in Made(i) \cap Made(j) : c \in Raising(i) <=> c \in Raising(j)

SameCallsAndResult(i, j) ==
    /\ StripAdvisory(trace[i]) = StripAdvisory(trace[j])
    /\ pc[i] = pc[j]
    /\ exc[i] = exc[j]

EventUses(i) ==
    Runs(i) \cup Positions(i, "log.info") \cup Positions(i, "log.exception")

\* C16: _generate_pr and every log call of an invocation are handed exactly the
\* event generate_pr was called with, and generate_pr's event is that same
\* value at every point of the invocation, its end on the success and on the
\* failure path included.
C16_EventReadOnly ==
    \A i \in Inv :
        /\ \A k \in EventUses(i) : trace[i][k].ev = given[i]
        /\ event[i] = given[i]

\* A failure path run to its end: the start log, the _generate_pr call and the
\* exception log were each handed the event, and finalize was called.
C16_Witness ==
    \E i \in Inv :
        /\ pc[i] = "raised"
        /\ given[i] \in Events
        /\ Runs(i) # {}
        /\ Positions(i, "log.exception") # {}
        /\ Cardinality(EventUses(i)) = 3
        /\ Finalizes(i) # {}

\* ---- C17 -----------------------------------------------------------------
\* C17: an invocation makes at most one finalize call; a finalize call that
\* raised is the last call of the invocation and its error is what the caller
\* gets; when it was finalize(success=True), after _generate_pr returned, no
\* finalize(success=False) and no exception log were made.
C17_NoFinalizeAfterFailingFinalize ==
    \A i \in Inv :
        /\ Cardinality(Finalizes(i)) <= 1
        /\ \A f \in Finalizes(i) :
              trace[i][f].raises =>
                  /\ f = Len(trace[i])
                  /\ pc[i] = "raised"
                  /\ exc[i] = PublishError
                  /\ trace[i][f].success =>
                        /\ RanToReturn(i)
                        /\ FinalizesWith(i, FALSE) = {}
                        /\ Positions(i, "log.exception") = {}

\* finalize(success=True) raised after _generate_pr had returned.
C17_Witness ==
    \E i \in Inv :
        \E f \in FinalizesWith(i, TRUE) :
            /\ trace[i][f].raises
            /\ RanToReturn(i)
            /\ pc[i] = "raised"

\* ---- C18 -----------------------------------------------------------------
\* C18: a placeholder publish or advisory publish that raised is the last call
\* of its invocation: its error is what the caller gets, _generate_pr was not
\* invoked, and neither an exception log entry nor a finalize call was made.
C18_PublishErrorsNotCaught ==
    \A i \in Inv :
        \A k \in Updates(i) \cup Advisories(i) :
            trace[i][k].raises =>
                /\ k = Len(trace[i])
                /\ pc[i] = "raised"
                /\ exc[i] = PublishError
                /\ caught[i] = NoError
                /\ Runs(i) = {}
                /\ Positions(i, "log.exception") = {}
                /\ Finalizes(i) = {}

\* The advisory publish raised, after a placeholder publish that returned.
C18_Witness ==
    \E i \in Inv :
        /\ \E u \in Updates(i) : Returned(i, u)
        /\ \E a \in Advisories(i) : trace[i][a].raises
        /\ pc[i] = "raised"

\* ---- C19 -----------------------------------------------------------------
\* The calls invocation i made of the publish service, in order.
PublishCalls(i) ==
    LET made == SelectSeq(trace[i], LAMBDA c : c.by = "base" /\
                    c.op \in {"update", "publish_update", "finalize"})
    IN  [k \in 1..Len(made) |-> <<made[k].op, made[k].success>>]

\* The failure path's calls of the publish service under model m.
FailurePathCalls(m) ==
    <<<<"update", FALSE>>>>
        \o (IF UsesGpt35(m) THEN <<<<"publish_update", FALSE>>>> ELSE <<>>)
        \o <<<<"finalize", FALSE>>>>

====
